---- MODULE Spec2Model ----
(***************************************************************************)
(* A model of src/index.mjs: the conversion of a parsed DXF document (a    *)
(* tree of records, each a sequence of <<group code, value>> pairs) into   *)
(* SVG markup and a bounding box.                                          *)
(*                                                                         *)
(* JavaScript numbers are modelled as records [k, v]: a finite integer, NaN *)
(* or +/-Infinity.  Markup is modelled as strings, built the way jsx()      *)
(* builds them.                                                            *)
(***************************************************************************)
EXTENDS Integers, Sequences, FiniteSets, TLC

VARIABLES
  input,    \* dxf.ENTITIES, the record list createSvgContents is called on
  loop,     \* entitiesSvg's locals: i (1-based), s, minX, maxX, minY, maxY,
            \* and the diagnostics passed to options.warn so far
  pc,       \* "loop": in the for loop; "returned": createSvgContents has
            \* returned; "done": createSvgString has returned
  result,   \* what createSvgContents returned: [s, bbox]
  svg,      \* what createSvgString returned
  ltypeRecord,  \* a record of dxf.TABLES.LTYPE
  ltypeResult,  \* what createEntitySvgMap has made of it: the array
                \* strokeDasharray of line 316 and the resulting ltypeMap
  colorArgs,    \* an entity and the dxf.TABLES.LAYER it is coloured under
  colorResult,  \* what color(entity) returned
  dimArgs,      \* a DIMENSION record and the styles and header of its dxf
  dimResult,    \* what collectDimensionStyles returned
  tolArgs,      \* the arguments of dimensionValueToMText
  tolResult,    \* its local valueWithTolerance and what it returned
  blockDoc,     \* a document for block expansion: its ENTITIES and BLOCKS
  callStack,    \* the entitiesSvg invocations in progress, outermost first:
                \* each its entity list and the index i of its loop
  blockRun,     \* how far the conversion is, and the number of entitiesSvg
                \* invocations INSERT has made
  mtextRecord,  \* an MTEXT record
  mtextResult   \* what MTEXT_angle returned for it

(***************************************************************************)
(* JavaScript number values and the arithmetic the code applies to them.   *)
(***************************************************************************)
Fin(n) == [k |-> "fin", v |-> n]
NaN == [k |-> "nan", v |-> 0]
Infinity == [k |-> "inf", v |-> 1]
NegInfinity == [k |-> "inf", v |-> -1]

Abs(n) == IF n < 0 THEN -n ELSE n
Sign(n) == IF n > 0 THEN 1 ELSE IF n < 0 THEN -1 ELSE 0

Neg(a) == IF a.k = "nan" THEN NaN ELSE [k |-> a.k, v |-> -a.v]

Add(a, b) ==
  CASE a.k = "nan" \/ b.k = "nan" -> NaN
    [] a.k = "inf" /\ b.k = "inf" -> IF a.v = b.v THEN a ELSE NaN
    [] a.k = "inf" -> a
    [] b.k = "inf" -> b
    [] OTHER -> Fin(a.v + b.v)

Sub(a, b) == Add(a, Neg(b))

Mul(a, b) ==
  CASE a.k = "nan" \/ b.k = "nan" -> NaN
    [] a.k = "inf" \/ b.k = "inf" ->
         IF Sign(a.v) * Sign(b.v) = 0 THEN NaN
         ELSE [k |-> "inf", v |-> Sign(a.v) * Sign(b.v)]
    [] OTHER -> Fin(a.v * b.v)

\* a < b on JS numbers (false as soon as one side is NaN)
Less(a, b) ==
  CASE a.k = "nan" \/ b.k = "nan" -> FALSE
    [] a.k = "inf" -> a.v < 0 /\ ~(b.k = "inf" /\ b.v < 0)
    [] b.k = "inf" -> b.v > 0
    [] OTHER -> a.v < b.v

\* the global isFinite(x)
isFinite(a) == a.k = "fin"

\* JS truthiness of a number: 0 and NaN are falsy
Truthy(a) == ~(a.k = "nan" \/ (a.k = "fin" /\ a.v = 0))

\* a number in a template literal
NumStr(a) ==
  CASE a.k = "fin" -> ToString(a.v)
    [] a.k = "nan" -> "NaN"
    [] OTHER -> IF a.v > 0 THEN "Infinity" ELSE "-Infinity"

\* Math.min(a, b) and Math.max(a, b)
Min2(a, b) ==
  IF a.k = "nan" \/ b.k = "nan" THEN NaN ELSE IF Less(b, a) THEN b ELSE a
Max2(a, b) ==
  IF a.k = "nan" \/ b.k = "nan" THEN NaN ELSE IF Less(a, b) THEN b ELSE a

RECURSIVE MathMin(_, _)
MathMin(a, xs) == IF xs = <<>> THEN a ELSE MathMin(Min2(a, Head(xs)), Tail(xs))

RECURSIVE MathMax(_, _)
MathMax(a, xs) == IF xs = <<>> THEN a ELSE MathMax(Max2(a, Head(xs)), Tail(xs))

\* Array.prototype.filter(x => isFinite(x))
RECURSIVE FilterFinite(_)
FilterFinite(xs) ==
  IF xs = <<>> THEN <<>>
  ELSE (IF isFinite(Head(xs)) THEN <<Head(xs)>> ELSE <<>>) \o FilterFinite(Tail(xs))

(***************************************************************************)
(* Records and the accessors (lines 2, 16-33).  A record is a sequence of  *)
(* <<code, value>> pairs.  Numeric codes carry integers, that is the       *)
(* decimal strings of the file already parsed by unary plus; the codes 0,  *)
(* 1, 2, 3, 5, 6, 8, 49, 62, 1000 and 1002 carry strings.                    *)
(***************************************************************************)
\* record has at least one pair with this code (getGroupCodeValue is defined)
Has(record, code) == \E j \in 1..Len(record) : record[j][1] = code

\* getGroupCodeValue(record, code): the first value stored for the code
getGroupCodeValue(record, code) ==
  record[CHOOSE j \in 1..Len(record) :
           /\ record[j][1] = code
           /\ \A m \in 1..(j - 1) : record[m][1] # code][2]

\* getGroupCodeValues(record, code): every value stored for the code, in order
RECURSIVE getGroupCodeValues(_, _)
getGroupCodeValues(record, code) ==
  IF record = <<>> THEN <<>>
  ELSE (IF Head(record)[1] = code THEN <<Head(record)[2]>> ELSE <<>>)
         \o getGroupCodeValues(Tail(record), code)

\* getGroupCodeValue(record, code) ?? "" for the string-valued codes;
\* an undefined value and an empty one are both the empty string here
Str(record, code) == IF Has(record, code) THEN getGroupCodeValue(record, code) ELSE ""

\* line 25: the magnitude above which $number throws
SanityBound == 1000000

\* $number throws on this read (lines 25-27)
NumberThrows(record, code) ==
  Has(record, code) /\ Abs(getGroupCodeValue(record, code)) > SanityBound

\* the Error thrown by $number, as `${error}` prints it (line 26)
NumberError(record, code) ==
  "Error: group code " \o ToString(code) \o " is invalid ("
    \o ToString(getGroupCodeValue(record, code)) \o ")"

\* $number(record, code, defaultValue) when it does not throw (lines 18-31);
\* an omitted default is passed as NaN (line 22)
Number(record, code, defaultValue) ==
  IF Has(record, code) THEN Fin(getGroupCodeValue(record, code)) ELSE defaultValue

\* the first of the codes, read in this order, on which $number throws
RECURSIVE FirstThrow(_, _)
FirstThrow(record, codes) ==
  IF codes = <<>> THEN ""
  ELSE IF NumberThrows(record, Head(codes)) THEN NumberError(record, Head(codes))
  ELSE FirstThrow(record, Tail(codes))

(***************************************************************************)
(* jsx (lines 104-142): an element as a string.  props is a sequence of    *)
(* [key, val, on]: val is the value as printed and on its truthiness (a    *)
(* falsy prop is skipped, line 111).                                       *)
(***************************************************************************)
PNum(key, a) == [key |-> key, val |-> NumStr(a), on |-> Truthy(a)]
PStr(key, str) == [key |-> key, val |-> str, on |-> str # ""]

RECURSIVE Attrs(_)
Attrs(props) ==
  IF props = <<>> THEN ""
  ELSE (IF Head(props).on
        THEN " " \o Head(props).key \o "=\"" \o Head(props).val \o "\""
        ELSE "")
       \o Attrs(Tail(props))

HasFill(props) == \E j \in 1..Len(props) : props[j].key = "fill" /\ props[j].on

jsx(type, props, children) ==
  "<" \o type \o Attrs(props)
    \o (IF type \in {"line", "polyline", "polygon", "circle", "path"}
        THEN (IF HasFill(props) THEN "" ELSE " fill=\"none\"")
               \o " vector-effect=\"non-scaling-stroke\""
        ELSE "")
    \o (IF type = "text" THEN " stroke=\"none\" style=\"white-space:pre\"" ELSE "")
    \o (IF children # "" THEN ">" \o children \o "</" \o type \o ">" ELSE "/>")

(***************************************************************************)
(* round (lines 8-15), on the integers of this model.                      *)
(***************************************************************************)
RECURSIVE Pow10(_)
Pow10(n) == IF n = 0 THEN 1 ELSE 10 * Pow10(n - 1)

\* Math.round(n / 10^k) * 10^k: halves go towards +Infinity
RoundToPow10(n, k) == ((2 * n + Pow10(k)) \div (2 * Pow10(k))) * Pow10(k)

\* round(n, precision): an integer is its own rounding to a non-negative
\* number of decimals; NaN, Infinity or a NaN precision give NaN (line 11)
round(a, precision) ==
  IF a.k # "fin" \/ precision.k # "fin" THEN NaN
  ELSE IF precision.v >= 0 THEN a
  ELSE Fin(RoundToPow10(a.v, -precision.v))

(***************************************************************************)
(* yx2angle and MTEXT_angle (lines 185-202).  Angles are whole degrees.    *)
(***************************************************************************)
\* x || 0 on a number
OrZero(a) == IF Truthy(a) THEN a ELSE Fin(0)

\* Math.atan2(y, x) * 180 / Math.PI for the finite vectors that lie on an
\* axis or on a diagonal, the only ones of this model
Atan2Degrees(y, x) ==
  CASE y = 0 /\ x >= 0 -> 0
    [] y = 0 /\ x < 0 -> 180
    [] x = 0 /\ y > 0 -> 90
    [] x = 0 /\ y < 0 -> -90
    [] x # 0 /\ x = y -> IF x > 0 THEN 45 ELSE -135
    [] x # 0 /\ x = -y -> IF x > 0 THEN -45 ELSE 135

\* line 185
yx2angle(y, x) ==
  OrZero(round(Fin(Atan2Degrees(OrZero(y).v, OrZero(x).v)), Fin(5)))

\* lines 187-202, the loop from index i (1-based) down to the first pair:
\* the last pair of code 50, 11 or 21 decides
RECURSIVE MTEXT_angle(_, _)
MTEXT_angle(mtext, i) ==
  IF i < 1 THEN [k |-> "angle", v |-> Fin(0)]
  ELSE CASE mtext[i][1] = 50 ->
              [k |-> "angle", v |-> OrZero(round(Fin(mtext[i][2]), Fin(5)))]
         [] mtext[i][1] = 11 ->
              IF NumberThrows(mtext, 12)
              THEN [k |-> "throw", err |-> NumberError(mtext, 12)]
              ELSE [k |-> "angle",
                    v |-> yx2angle(Number(mtext, 12, NaN), Fin(mtext[i][2]))]
         [] mtext[i][1] = 21 ->
              IF NumberThrows(mtext, 11)
              THEN [k |-> "throw", err |-> NumberError(mtext, 11)]
              ELSE [k |-> "angle",
                    v |-> yx2angle(Fin(mtext[i][2]), Number(mtext, 11, NaN))]
         [] OTHER -> MTEXT_angle(mtext, i - 1)

(***************************************************************************)
(* Dimension styles (lines 35-78).  An optional value is <<>> when         *)
(* undefined and <<v>> otherwise.                                          *)
(***************************************************************************)
\* Object.entries(DimStyles) visits the variables in this order
DimStyleNames ==
  <<"DIMSCALE", "DIMTP", "DIMTM", "DIMTOL", "DIMTXT", "DIMLFAC", "DIMCLRT", "DIMDEC">>

\* DimStyles[variableName] = [groupCode, headerGroupCode, defaultValue]
DimStyles(variableName) ==
  CASE variableName = "DIMSCALE" -> [groupCode |-> 40, headerGroupCode |-> 40, defaultValue |-> Fin(1)]
    [] variableName = "DIMTP" -> [groupCode |-> 47, headerGroupCode |-> 40, defaultValue |-> NaN]
    [] variableName = "DIMTM" -> [groupCode |-> 48, headerGroupCode |-> 40, defaultValue |-> NaN]
    [] variableName = "DIMTOL" -> [groupCode |-> 71, headerGroupCode |-> 70, defaultValue |-> Fin(0)]
    [] variableName = "DIMTXT" -> [groupCode |-> 140, headerGroupCode |-> 40, defaultValue |-> Fin(1)]
    [] variableName = "DIMLFAC" -> [groupCode |-> 144, headerGroupCode |-> 40, defaultValue |-> Fin(1)]
    [] variableName = "DIMCLRT" -> [groupCode |-> 178, headerGroupCode |-> 70, defaultValue |-> NaN]
    [] variableName = "DIMDEC" -> [groupCode |-> 271, headerGroupCode |-> 70, defaultValue |-> Fin(4)]

\* getGroupCodeValue(record, code) as an optional value
Opt(record, code) ==
  IF Has(record, code) THEN <<getGroupCodeValue(record, code)>> ELSE <<>>

\* the inner loop of lines 51-59 from index j: the pairs after a 1070 key up
\* to the next code 1002; d[++j] past the end is a TypeError
RECURSIVE OverridePairs(_, _, _)
OverridePairs(d, j, map) ==
  IF j > Len(d) THEN [k |-> "map", map |-> map]
  ELSE IF d[j][1] = 1002 THEN [k |-> "map", map |-> map]
  ELSE IF d[j][1] = 1070
       THEN IF j + 1 > Len(d) THEN [k |-> "throw", map |-> <<>>]
            ELSE OverridePairs(d, j + 2, (d[j][2] :> d[j + 1][2]) @@ map)
  ELSE OverridePairs(d, j + 1, map)

\* the outer loop of lines 49-62 from index i; "undefined" when no braced
\* DSTYLE block is found; d[i + 1] past the end is a TypeError
RECURSIVE OverridesFrom(_, _)
OverridesFrom(d, i) ==
  IF i > Len(d) THEN [k |-> "undefined", map |-> <<>>]
  ELSE IF d[i][1] = 1000 /\ d[i][2] = "DSTYLE"
       THEN IF i + 1 > Len(d) THEN [k |-> "throw", map |-> <<>>]
            ELSE IF d[i + 1][1] = 1002 /\ d[i + 1][2] = "{"
                 THEN OverridePairs(d, i + 2, <<>>)
                 ELSE OverridesFrom(d, i + 1)
  ELSE OverridesFrom(d, i + 1)

collectDimensionStyleOverrides(d) == OverridesFrom(d, 1)

\* styleOverrides?.get(groupCode)
OverrideGet(styleOverrides, groupCode) ==
  IF styleOverrides.k = "map" /\ groupCode \in DOMAIN styleOverrides.map
  THEN <<styleOverrides.map[groupCode]>>
  ELSE <<>>

\* dxf.TABLES?.DIMSTYLE?.find(...) (line 68): the first style of that name,
\* the empty record when there is none
RECURSIVE FindStyle(_, _)
FindStyle(table, dimension) ==
  IF table = <<>> THEN <<>>
  ELSE IF Opt(Head(table), 2) = Opt(dimension, 3) THEN Head(table)
  ELSE FindStyle(Tail(table), dimension)

\* a ?? c ?? b: the header asked before the style table
NullishChainHeaderFirst(a, b, c) ==
  IF a # <<>> THEN a ELSE IF c # <<>> THEN c ELSE b

\* a ?? b ?? c (line 73)
NullishChain(a, b, c) ==
  IF a # <<>> THEN a ELSE IF b # <<>> THEN b ELSE c

\* dxf.HEADER?.['$' + variableName]
HeaderRecord(dxf, variableName) ==
  IF ("$" \o variableName) \in DOMAIN dxf.HEADER
  THEN dxf.HEADER["$" \o variableName]
  ELSE <<>>

\* lines 66-78; the result is [k |-> "throw"] when the overrides threw
collectDimensionStyles(dxf, dimension) ==
  LET style == FindStyle(dxf.DIMSTYLE, dimension)
      styleOverrides == collectDimensionStyleOverrides(dimension)
      value(variableName) ==
        NullishChain(OverrideGet(styleOverrides, DimStyles(variableName).groupCode),
                     Opt(style, DimStyles(variableName).groupCode),
                     Opt(HeaderRecord(dxf, variableName),
                         DimStyles(variableName).headerGroupCode))
  IN IF styleOverrides.k = "throw" THEN [k |-> "throw"]
     ELSE [k |-> "styles",
           styles |->
             [variableName \in {DimStyleNames[j] : j \in 1..Len(DimStyleNames)} |->
                IF value(variableName) # <<>> THEN Fin(value(variableName)[1])
                ELSE DimStyles(variableName).defaultValue]]

(***************************************************************************)
(* Dimension text (lines 80-102).  The string of code 1 is a sequence of   *)
(* pieces, each either "<>" or a text without "<>".                        *)
(***************************************************************************)
\* a zero tolerance printed with a sign
toleranceStringSigned(a) ==
  IF Less(Fin(0), a) THEN "+" \o NumStr(a)
  ELSE IF Less(a, Fin(0)) THEN NumStr(a)
  ELSE "+0"

\* line 80
toleranceString(a) ==
  IF Less(Fin(0), a) THEN "+" \o NumStr(a)
  ELSE IF Less(a, Fin(0)) THEN NumStr(a)
  ELSE " 0"

\* the local value of line 84
MTextValue(measurement, dimension, styles) ==
  LET savedValue == Number(dimension, 42, Fin(-1))
  IN round(IF savedValue # Fin(-1) THEN savedValue
           ELSE Mul(measurement, styles["DIMLFAC"]),
           styles["DIMDEC"])

\* the local valueWithTolerance of lines 85-98
ValueWithTolerance(value, styles) ==
  LET p == styles["DIMTP"]
      n == styles["DIMTM"]
  IN IF Truthy(styles["DIMTOL"]) /\ (Truthy(p) \/ Truthy(n))
     THEN IF p.k # "nan" /\ p = n
          THEN NumStr(value) \o "  ±" \o NumStr(p)
          ELSE NumStr(value) \o "  {\\S" \o toleranceString(p) \o "^"
                 \o toleranceString(Neg(n)) \o ";}"
     ELSE NumStr(value)

\* the string the pieces stand for
RECURSIVE Concat(_)
Concat(pieces) ==
  IF pieces = <<>> THEN "" ELSE Head(pieces) \o Concat(Tail(pieces))

\* template.replace(/<>/, by): only the first "<>" is replaced
RECURSIVE ReplaceFirst(_, _)
ReplaceFirst(pieces, by) ==
  IF pieces = <<>> THEN ""
  ELSE IF Head(pieces) = "<>" THEN by \o Concat(Tail(pieces))
  ELSE Head(pieces) \o ReplaceFirst(Tail(pieces), by)

\* a template without "<>" gives way to the value
ApplyTemplateOrValue(dimension, valueWithTolerance) ==
  IF Has(dimension, 1)
       /\ \E j \in 1..Len(getGroupCodeValue(dimension, 1)) :
            getGroupCodeValue(dimension, 1)[j] = "<>"
  THEN ReplaceFirst(getGroupCodeValue(dimension, 1), valueWithTolerance)
  ELSE valueWithTolerance

\* lines 100-101: an undefined or empty template is falsy
ApplyTemplate(dimension, valueWithTolerance) ==
  IF Has(dimension, 1) /\ Concat(getGroupCodeValue(dimension, 1)) # ""
  THEN ReplaceFirst(getGroupCodeValue(dimension, 1), valueWithTolerance)
  ELSE valueWithTolerance

(***************************************************************************)
(* The style resolver built by createEntitySvgMap (lines 294-357).         *)
(***************************************************************************)
\* unary plus on the string of a colour index: the decimal strings of
\* -1..256 parse to their number, any other string here to NaN
ToNumber(str) ==
  IF \E n \in -1..256 : ToString(n) = str
  THEN Fin(CHOOSE n \in -1..256 : ToString(n) = str)
  ELSE NaN

\* DXF_COLOR_HEX[index] of @dxfom/color/hex: one colour for each of 0..255
DXF_COLOR_HEX(n) == "#hex" \o ToString(n)

\* defaultOptions.resolveColorIndex (line 262)
resolveColorIndex(a) ==
  IF a.k = "fin" /\ a.v \in 0..255 THEN DXF_COLOR_HEX(a.v) ELSE "#888"

\* a value used as a property key: undefined becomes the key "undefined"
Key(record, code) ==
  IF Has(record, code) THEN getGroupCodeValue(record, code) ELSE "undefined"

\* layerMap (lines 299-308): a later LAYER record of the same name overwrites
RECURSIVE layerMap(_)
layerMap(layers) ==
  IF layers = <<>> THEN <<>>
  ELSE LET layer == layers[Len(layers)]
           rest == layerMap(SubSeq(layers, 1, Len(layers) - 1))
       IN IF Str(layer, 0) = "LAYER"
          THEN (Key(layer, 2) :>
                  [color |-> resolveColorIndex(ToNumber(Str(layer, 62))),
                   ltype |-> Key(layer, 6)]) @@ rest
          ELSE rest

\* s => s.startsWith('-') ? s.slice(1) : s on a code-49 value (line 314);
\* a value is [neg, abs]: the string abs, with a leading '-' when neg
StripMinus(seg) == seg.abs

RECURSIVE MapStripMinus(_)
MapStripMinus(segs) ==
  IF segs = <<>> THEN <<>>
  ELSE <<StripMinus(Head(segs))>> \o MapStripMinus(Tail(segs))

\* the array strokeDasharray of line 316, from the raw code-49 values
NormalizeDash(raw) ==
  LET d == MapStripMinus(raw)
  IN IF Len(d) = 0 \/ Len(d) % 2 = 1 THEN d
     ELSE IF d[1] = "0" THEN Tail(d)
     ELSE d \o <<"0">>

\* Array.prototype.join(' ')
RECURSIVE Join(_)
Join(strs) ==
  IF strs = <<>> THEN ""
  ELSE IF Len(strs) = 1 THEN strs[1]
  ELSE strs[1] \o " " \o Join(Tail(strs))

\* ltypeMap (lines 310-321): only a non-empty pattern is stored
RECURSIVE ltypeMap(_)
ltypeMap(ltypes) ==
  IF ltypes = <<>> THEN <<>>
  ELSE LET ltype == ltypes[Len(ltypes)]
           rest == ltypeMap(SubSeq(ltypes, 1, Len(ltypes) - 1))
           dash == NormalizeDash(getGroupCodeValues(ltype, 49))
       IN IF Str(ltype, 0) = "LTYPE" /\ Len(dash) # 0
          THEN (Key(ltype, 2) :> [strokeDasharray |-> Join(dash)]) @@ rest
          ELSE rest

\* a cascade in which an index of 0 inherits from the layer as 256 does
ColorLayerFirst(dxf, entity) ==
  LET colorIndex == Str(entity, 62)
      layers == layerMap(dxf.LAYER)
  IN IF colorIndex \in {"", "0", "256"}
     THEN IF Key(entity, 8) \in DOMAIN layers
          THEN layers[Key(entity, 8)].color
          ELSE ""
     ELSE resolveColorIndex(ToNumber(colorIndex))

\* _color (lines 323-339); "" stands for undefined
_color(dxf, entity) ==
  LET colorIndex == Str(entity, 62)
      layers == layerMap(dxf.LAYER)
  IN IF colorIndex = "0" THEN "currentColor"
     ELSE IF colorIndex # "" /\ colorIndex # "256"
     THEN resolveColorIndex(ToNumber(colorIndex))
     ELSE IF Key(entity, 8) \in DOMAIN layers
     THEN layers[Key(entity, 8)].color
     ELSE ""

\* color (line 341)
color(dxf, entity) ==
  IF _color(dxf, entity) # "" THEN _color(dxf, entity) ELSE "currentColor"

\* strokeDasharray (line 343); "" stands for undefined
strokeDasharray(dxf, entity) ==
  LET layers == layerMap(dxf.LAYER)
      ltypes == ltypeMap(dxf.LTYPE)
      name == IF Has(entity, 6) THEN getGroupCodeValue(entity, 6)
              ELSE IF Key(entity, 8) \in DOMAIN layers
              THEN layers[Key(entity, 8)].ltype
              ELSE "undefined"
  IN IF name \in DOMAIN ltypes THEN ltypes[name].strokeDasharray ELSE ""

\* extrusionStyle (lines 345-351): for an integer Z, within 1/64 of -1 is -1
extrusionStyle(entity) ==
  IF Has(entity, 230) /\ getGroupCodeValue(entity, 230) = -1
  THEN "transform:rotateY(180deg)"
  ELSE ""

\* commonAttributes (lines 265-267)
commonAttributes(entity) == <<PStr("data-5", Str(entity, 5))>>

\* lineAttributes (lines 353-357)
lineAttributes(dxf, entity) ==
  commonAttributes(entity)
    \o <<PStr("stroke", color(dxf, entity)),
         PStr("stroke-dasharray", strokeDasharray(dxf, entity)),
         PStr("style", extrusionStyle(entity))>>

(***************************************************************************)
(* The entity interpreters of createEntitySvgMap (lines 359-738).  dxf is  *)
(* [LAYER, LTYPE, BLOCKS]: the two tables as sequences of records and the  *)
(* block-name -> record-list mapping as a function.  Modelled here: POINT, *)
(* LINE, POLYLINE, CIRCLE, ELLIPSE and INSERT.                             *)
(*                                                                         *)
(* What a call entitySvg(entity, vertices) does is a record:               *)
(*   k       "svg" (a truthy value was returned), "undefined" or "throw"   *)
(*   markup  svg[0] as `s += svg[0]` appends it                            *)
(*   xs, ys  the elements of svg[1] and svg[2]                             *)
(*   xsErr, ysErr  the TypeError of svg[1].filter / svg[2].filter when the *)
(*           returned value has no such array, else ""                     *)
(*   err     the error thrown, as `${error}` prints it                     *)
(*   warns   the diagnostics passed to warn during the call, in order      *)
(***************************************************************************)
Warning(message, record) == [message |-> message, record |-> record]

Svg(markup, xs, ys, warns) ==
  [k |-> "svg", markup |-> markup, xs |-> xs, ys |-> ys,
   xsErr |-> "", ysErr |-> "", err |-> "", warns |-> warns]

Undefined(warns) ==
  [k |-> "undefined", markup |-> "", xs |-> <<>>, ys |-> <<>>,
   xsErr |-> "", ysErr |-> "", err |-> "", warns |-> warns]

Thrown(err, warns) ==
  [k |-> "throw", markup |-> "", xs |-> <<>>, ys |-> <<>>,
   xsErr |-> "", ysErr |-> "", err |-> err, warns |-> warns]

\* POINT (line 360)
POINT(dxf, entity) == Undefined(<<>>)

\* LINE (lines 361-370)
LINE(dxf, entity) ==
  LET thrown == FirstThrow(entity, <<10, 11, 20, 21>>)
      xs == <<Number(entity, 10, NaN), Number(entity, 11, NaN)>>
      ys == <<Neg(Number(entity, 20, NaN)), Neg(Number(entity, 21, NaN))>>
  IN IF thrown # "" THEN Thrown(thrown, <<>>)
     ELSE Svg(jsx("line",
                  lineAttributes(dxf, entity)
                    \o <<PNum("x1", xs[1]), PNum("y1", ys[1]),
                         PNum("x2", xs[2]), PNum("y2", ys[2])>>,
                  ""),
              xs, ys, <<>>)

\* the first vertex on whose code $number throws (lines 372-373)
RECURSIVE FirstVertexThrow(_, _)
FirstVertexThrow(vertices, code) ==
  IF vertices = <<>> THEN ""
  ELSE IF NumberThrows(Head(vertices), code) THEN NumberError(Head(vertices), code)
  ELSE FirstVertexThrow(Tail(vertices), code)

\* polylinePoints (lines 284-292)
polylinePoints(xs, ys) ==
  Join([j \in 1..Len(xs) |-> NumStr(xs[j]) \o "," \o NumStr(ys[j])])

\* POLYLINE (lines 371-381)
POLYLINE(dxf, entity, vertices) ==
  LET thrown == IF FirstVertexThrow(vertices, 10) # ""
                THEN FirstVertexThrow(vertices, 10)
                ELSE FirstVertexThrow(vertices, 20)
      xs == [j \in 1..Len(vertices) |-> Number(vertices[j], 10, NaN)]
      ys == [j \in 1..Len(vertices) |-> Neg(Number(vertices[j], 20, NaN))]
      flags == IF Has(entity, 70) THEN getGroupCodeValue(entity, 70) ELSE 0
      attrs == lineAttributes(dxf, entity) \o <<PStr("points", polylinePoints(xs, ys))>>
  IN IF thrown # "" THEN Thrown(thrown, <<>>)
     ELSE Svg(jsx(IF flags % 2 = 1 THEN "polygon" ELSE "polyline", attrs, ""),
              xs, ys, <<>>)

\* CIRCLE (lines 393-400)
CIRCLE(dxf, entity) ==
  LET thrown == FirstThrow(entity, <<10, 20, 40>>)
      cx == Number(entity, 10, NaN)
      cy == Number(entity, 20, NaN)
      r == Number(entity, 40, NaN)
  IN IF thrown # "" THEN Thrown(thrown, <<>>)
     ELSE Svg(jsx("circle",
                  lineAttributes(dxf, entity)
                    \o <<PNum("cx", cx), PNum("cy", Neg(cy)), PNum("r", r)>>,
                  ""),
              <<Sub(cx, r), Add(cx, r)>>,
              <<Sub(Neg(cy), r), Add(Neg(cy), r)>>, <<>>)

\* Math.hypot(a, b) where the result is an integer, NaN or Infinity
Hypot(a, b) ==
  CASE a.k = "inf" \/ b.k = "inf" -> Infinity
    [] a.k = "nan" \/ b.k = "nan" -> NaN
    [] OTHER -> Fin(CHOOSE h \in 0..(Abs(a.v) + Abs(b.v)) : h * h = a.v * a.v + b.v * b.v)

\* ELLIPSE (lines 416-437).  The sweep parameters are integers here, so
\* nearlyEqual(rad1, 0) is rad1 = 0 and nearlyEqual(rad2, 2 * Math.PI) holds
\* only for the default; the major axis lies along +X or is missing, so that
\* radAngleOffset is falsy and no transform is set (line 426).
ELLIPSE(dxf, entity) ==
  LET thrown == FirstThrow(entity, <<41, 42>>)
      rad1 == Number(entity, 41, Fin(0))
      full == rad1 = Fin(0) /\ ~Has(entity, 42)
      thrown2 == FirstThrow(entity, <<10, 20, 11, 21, 40>>)
      cx == Number(entity, 10, NaN)
      cy == Number(entity, 20, NaN)
      majorR == Hypot(Number(entity, 11, NaN), Number(entity, 21, NaN))
      minorR == Mul(Number(entity, 40, NaN), majorR)
  IN IF thrown # "" THEN Thrown(thrown, <<>>)
     ELSE IF ~full
     THEN Undefined(<<Warning("Elliptical arc cannot be rendered yet.", <<>>)>>)
     ELSE IF thrown2 # "" THEN Thrown(thrown2, <<>>)
     ELSE Svg(jsx("ellipse",
                  lineAttributes(dxf, entity)
                    \o <<PNum("cx", cx), PNum("cy", Neg(cy)),
                         PNum("rx", majorR), PNum("ry", minorR)>>,
                  ""),
              <<Sub(cx, majorR), Add(cx, majorR)>>,
              <<Sub(Neg(cy), minorR), Add(Neg(cy), minorR)>>, <<>>)

\* the block's records without its BLOCK / ENDBLK delimiters (lines 728-730);
\* a missing block gives no records
BlockEntities(dxf, name) ==
  IF name \notin DOMAIN dxf.BLOCKS THEN <<>>
  ELSE LET b == dxf.BLOCKS[name]
           lo == IF Len(b) > 0 /\ Str(b[1], 0) = "BLOCK" THEN 2 ELSE 1
           hi == IF Len(b) > 0 /\ Str(b[Len(b)], 0) = "ENDBLK" THEN Len(b) - 1 ELSE Len(b)
       IN SubSeq(b, lo, hi)

\* Array.prototype.filter(Boolean).join(' ')
RECURSIVE JoinTruthy(_)
JoinTruthy(strs) ==
  IF strs = <<>> THEN ""
  ELSE LET rest == JoinTruthy(Tail(strs))
       IN IF Head(strs) = "" THEN rest
          ELSE IF rest = "" THEN Head(strs)
          ELSE Head(strs) \o " " \o rest

\* x || 1 (lines 724-725)
OrOne(a) == IF Truthy(a) THEN a ELSE Fin(1)

RECURSIVE entitiesSvg(_, _)

\* the extents INSERT returns (line 736)
InsertExtentsUnscaled(x, scale, lo, size, rotate) ==
  <<Add(x, lo), Add(x, Add(lo, size))>>

InsertExtents(x, scale, lo, size, rotate) ==
  <<Add(x, Mul(lo, scale)), Add(x, Mul(Add(lo, size), scale))>>

\* INSERT (lines 720-737), given what entitiesSvg returned for the block
\* (line 732)
InsertOf(dxf, entity, nested) ==
  LET x == Number(entity, 10, Fin(0))
      y == Neg(Number(entity, 20, Fin(0)))
      rotate == Neg(Number(entity, 50, NaN))
      xscale == OrOne(Number(entity, 41, Fin(1)))
      yscale == OrOne(Number(entity, 42, Fin(1)))
      transform ==
        JoinTruthy(<<
          IF Truthy(x) \/ Truthy(y)
          THEN "translate(" \o NumStr(x) \o "," \o NumStr(y) \o ")" ELSE "",
          IF xscale # Fin(1) \/ yscale # Fin(1)
          THEN "scale(" \o NumStr(xscale) \o "," \o NumStr(yscale) \o ")" ELSE "",
          IF Truthy(rotate) THEN "rotate(" \o NumStr(rotate) \o ")" ELSE "">>)
  IN Svg(jsx("g",
             commonAttributes(entity)
               \o <<PStr("color", _color(dxf, entity)),
                    PStr("transform", transform)>>,
             nested.s),
         InsertExtents(x, xscale, nested.bbox.x, nested.bbox.w, rotate),
         InsertExtents(y, yscale, nested.bbox.y, nested.bbox.h, rotate),
         nested.warns)

\* the five reads of $number come first (lines 721-725): when one throws the
\* block is not rendered
INSERT(dxf, entity) ==
  IF FirstThrow(entity, <<10, 20, 50, 41, 42>>) # ""
  THEN Thrown(FirstThrow(entity, <<10, 20, 50, 41, 42>>), <<>>)
  ELSE InsertOf(dxf, entity, entitiesSvg(dxf, BlockEntities(dxf, Key(entity, 2))))

(***************************************************************************)
(* The Scene Assembler: entitiesSvg (lines 741-801).                       *)
(***************************************************************************)
\* the interpreters of the table that are modelled (own keys, lines 359-738)
Interpreters == {"POINT", "LINE", "POLYLINE", "CIRCLE", "ELLIPSE", "INSERT"}

\* entitySvgMap is an object literal (line 359), so entitySvgMap[entityType]
\* (line 772) also finds what it inherits from Object.prototype: the
\* functions modelled here are Object ("constructor") and
\* Object.prototype.toString ("toString")
Inherited == {"constructor", "toString"}

\* the codes whose values are strings
StringCodes == {0, 1, 2, 3, 5, 6, 8, 62, 1000, 1002}

\* `${value}` of a group-code value
ValueStr(pair) == IF pair[1] \in StringCodes THEN pair[2] ELSE ToString(pair[2])

\* the elements of a <<code, value>> pair that pass filter(isFinite), as
\* Math.min and Math.max coerce them ("" coerces to 0)
PairFinite(pair) ==
  <<Fin(pair[1])>>
    \o (IF pair[1] \notin StringCodes THEN <<Fin(pair[2])>>
        ELSE IF pair[2] = "" THEN <<Fin(0)>>
        ELSE IF isFinite(ToNumber(pair[2])) THEN <<ToNumber(pair[2])>>
        ELSE <<>>)

\* Object(entity, vertices) returns the record itself: svg[0], svg[1] and
\* svg[2] are its first three <<code, value>> pairs
ObjectCall(entity) ==
  [k |-> "svg",
   markup |-> ToString(entity[1][1]) \o "," \o ValueStr(entity[1]),
   xs |-> IF Len(entity) >= 2 THEN PairFinite(entity[2]) ELSE <<>>,
   ys |-> IF Len(entity) >= 3 THEN PairFinite(entity[3]) ELSE <<>>,
   xsErr |-> IF Len(entity) >= 2 THEN ""
             ELSE "TypeError: Cannot read properties of undefined (reading 'filter')",
   ysErr |-> IF Len(entity) >= 3 THEN ""
             ELSE "TypeError: Cannot read properties of undefined (reading 'filter')",
   err |-> "", warns |-> <<>>]

\* Object.prototype.toString called with no receiver returns the string
\* "[object Undefined]": svg[0] is "[" and svg[1] is "o", which has no filter
ToStringCall(entity) ==
  [k |-> "svg", markup |-> "[", xs |-> <<>>, ys |-> <<>>,
   xsErr |-> "TypeError: svg[1].filter is not a function",
   ysErr |-> "TypeError: svg[2].filter is not a function",
   err |-> "", warns |-> <<>>]

\* entitySvgMap[entityType] is truthy (lines 772-774)
HasEntitySvg(entityType) == entityType \in Interpreters \cup Inherited

\* entitySvg(entity, vertices) (line 775)
entitySvg(dxf, entityType, entity, vertices) ==
  CASE entityType = "POINT" -> POINT(dxf, entity)
    [] entityType = "LINE" -> LINE(dxf, entity)
    [] entityType = "POLYLINE" -> POLYLINE(dxf, entity, vertices)
    [] entityType = "CIRCLE" -> CIRCLE(dxf, entity)
    [] entityType = "ELLIPSE" -> ELLIPSE(dxf, entity)
    [] entityType = "INSERT" -> INSERT(dxf, entity)
    [] entityType = "constructor" -> ObjectCall(entity)
    [] entityType = "toString" -> ToStringCall(entity)

\* getGroupCodeValue(entities[j], 0), "" when undefined (j is 1-based)
TypeAt(entities, j) == IF j \in 1..Len(entities) THEN Str(entities[j], 0) ELSE ""

\* the number of VERTEX records that directly follow entities[j] (lines 763-765)
RECURSIVE VertexRun(_, _)
VertexRun(entities, j) ==
  IF TypeAt(entities, j + 1) = "VERTEX" THEN 1 + VertexRun(entities, j + 1) ELSE 0

\* a grouping that leaves the end marker after the run in the list
ConsumedRunOnly(entities, j) == 1 + VertexRun(entities, j)

\* the records one iteration starting at entities[j] consumes (lines 761-769)
Consumed(entities, j) ==
  LET n == VertexRun(entities, j)
  IN 1 + n + (IF n # 0 /\ TypeAt(entities, j + n + 1) = "SEQEND" THEN 1 ELSE 0)

\* the state of the loop before any record (lines 746-750); i is 1-based
Acc0 ==
  [i |-> 1, s |-> "", minX |-> Infinity, maxX |-> NegInfinity,
   minY |-> Infinity, maxY |-> NegInfinity, warns |-> <<>>]

CaughtSilently(acc, next, call, error, entity) ==
  [acc EXCEPT !.i = next, !.s = acc.s \o call.markup, !.warns = acc.warns \o call.warns]

\* the catch clause (lines 789-791): what has been appended to s stays
Caught(acc, next, call, error, entity) ==
  [acc EXCEPT !.i = next,
              !.s = acc.s \o call.markup,
              !.warns = acc.warns \o call.warns
                          \o <<Warning("Error occurred: " \o error, entity)>>]

\* lines 776-785 and the catch clause, given what the call came to
Merge(acc, next, call, entity) ==
  CASE call.k = "throw" -> Caught(acc, next, call, call.err, entity)
    [] call.k = "undefined" ->
         [acc EXCEPT !.i = next, !.warns = acc.warns \o call.warns]
    [] call.xsErr # "" -> Caught(acc, next, call, call.xsErr, entity)
    [] call.ysErr # "" -> Caught(acc, next, call, call.ysErr, entity)
    [] OTHER ->
         [i |-> next,
          s |-> acc.s \o call.markup,
          minX |-> MathMin(acc.minX, FilterFinite(call.xs)),
          maxX |-> MathMax(acc.maxX, FilterFinite(call.xs)),
          minY |-> MathMin(acc.minY, FilterFinite(call.ys)),
          maxY |-> MathMax(acc.maxY, FilterFinite(call.ys)),
          warns |-> acc.warns \o call.warns]

\* one iteration of the loop over a record with a type tag (lines 761-791)
Dispatch(dxf, entities, acc) ==
  LET entity == entities[acc.i]
      entityType == TypeAt(entities, acc.i)
      n == VertexRun(entities, acc.i)
      vertices == SubSeq(entities, acc.i + 1, acc.i + n)
      next == acc.i + Consumed(entities, acc.i)
  IN IF ~HasEntitySvg(entityType)
     THEN [acc EXCEPT !.i = next,
                      !.warns = acc.warns
                        \o <<Warning("Unknown entity type: " \o entityType, entity)>>]
     ELSE Merge(acc, next, entitySvg(dxf, entityType, entity, vertices), entity)

\* one iteration of the loop (lines 753-792): a record without a type tag
\* is skipped (lines 757-759)
Iterate(dxf, entities, acc) ==
  IF TypeAt(entities, acc.i) = "" THEN [acc EXCEPT !.i = acc.i + 1]
  ELSE Dispatch(dxf, entities, acc)

RECURSIVE Loop(_, _, _)
Loop(dxf, entities, acc) ==
  IF acc.i > Len(entities) THEN acc
  ELSE Loop(dxf, entities, Iterate(dxf, entities, acc))

\* the box entitiesSvg returns (lines 795-800)
Box(acc) ==
  [x |-> acc.minX, y |-> acc.minY,
   w |-> Sub(acc.maxX, acc.minX), h |-> Sub(acc.maxY, acc.minY)]

\* what entitiesSvg returns (lines 795-800), with the diagnostics emitted
Returned(acc) == [s |-> acc.s, bbox |-> Box(acc), warns |-> acc.warns]

\* entitiesSvg(dxf, entities, options) as a whole: INSERT calls it on the block
entitiesSvg(dxf, entities) == Returned(Loop(dxf, entities, Acc0))

(***************************************************************************)
(* The document of the scene runs: its tables and blocks are fixed, its    *)
(* entity list is drawn from the records below.                            *)
(***************************************************************************)
SceneDxf ==
  [LAYER |-> << <<<<0, "LAYER">>, <<2, "L1">>, <<62, "1">>, <<6, "DASHED">>>> >>,
   LTYPE |-> << <<<<0, "LTYPE">>, <<2, "DASHED">>,
                  <<49, [neg |-> FALSE, abs |-> "2"]>>,
                  <<49, [neg |-> TRUE, abs |-> "1"]>> >> >>,
   BLOCKS |->
     [name \in {"B", "N"} |->
        IF name = "B"
        THEN << <<<<0, "BLOCK">>, <<2, "B">>>>,
                <<<<0, "LINE">>, <<10, 0>>, <<20, 0>>, <<11, 1>>, <<21, 0>>>>,
                <<<<0, "ENDBLK">>>> >>
        ELSE << <<<<0, "INSERT">>, <<2, "B">>, <<10, 10>>, <<20, -10>>>>,
                <<<<0, "FOO">>>>,
                <<<<0, "LINE">>, <<10, 1>>, <<20, 9000000>>, <<11, 1>>, <<21, 0>>>>,
                <<<<0, "POLYLINE">>, <<8, "L1">>>>,
                <<<<0, "VERTEX">>, <<10, 0>>, <<20, 0>>>>,
                <<<<0, "VERTEX">>, <<10, 2>>, <<20, 3>>>>,
                <<<<0, "SEQEND">>>>,
                <<<<0, "CIRCLE">>, <<10, 0>>, <<20, 0>>, <<40, 1>>>> >>]]

Records ==
  { <<<<0, "LINE">>, <<10, 0>>, <<20, 0>>, <<11, 10>>, <<21, 0>>>>,
    <<<<0, "LINE">>, <<10, 0>>, <<20, 2000000>>, <<11, 10>>, <<21, 0>>>>,
    <<<<0, "CIRCLE">>, <<10, 5>>, <<20, 5>>, <<40, 2>>>>,
    <<<<0, "POINT">>, <<10, 50>>, <<20, 50>>>>,
    <<<<0, "ELLIPSE">>, <<10, 0>>, <<20, 0>>, <<11, 3>>, <<21, 0>>, <<40, 1>>, <<41, 1>>>>,
    <<<<0, "FOO">>, <<10, 7>>, <<20, 7>>>>,
    <<<<0, "constructor">>, <<10, -20>>, <<20, 30>>>>,
    <<<<0, "toString">>>>,
    <<<<0, "INSERT">>, <<2, "B">>, <<10, 100>>, <<20, 0>>, <<41, 2>>, <<42, 2>>>>,
    <<<<0, "INSERT">>, <<2, "B">>, <<10, 5>>, <<20, 5>>, <<41, 3>>, <<42, -1>>, <<50, 90>>>>,
    <<<<0, "INSERT">>, <<2, "B">>, <<10, 1>>, <<20, 1>>, <<41, 0>>>>,
    <<<<0, "INSERT">>, <<2, "N">>, <<62, "3">>>>,
    <<<<0, "INSERT">>, <<2, "NOPE">>, <<10, 3>>, <<20, 3>>>>,
    <<<<0, "POLYLINE">>, <<70, 1>>>>,
    <<<<0, "VERTEX">>, <<10, 4>>, <<20, -4>>>>,
    <<<<5, "1F">>, <<10, 9>>>> }

\* the longest entity list
MaxEntities == 3

RECURSIVE Lists(_)
Lists(n) ==
  IF n = 0 THEN {<<>>}
  ELSE LET shorter == Lists(n - 1)
       IN shorter \cup {Append(l, r) : l \in {m \in shorter : Len(m) = n - 1}, r \in Records}

sceneVars == <<input, loop, pc, result, svg>>
ltypeVars == <<ltypeRecord, ltypeResult>>
colorVars == <<colorArgs, colorResult>>
dimVars == <<dimArgs, dimResult>>
tolVars == <<tolArgs, tolResult>>
blockVars == <<blockDoc, callStack, blockRun>>
mtextVars == <<mtextRecord, mtextResult>>
vars == <<sceneVars, ltypeVars, colorVars, dimVars, tolVars, blockVars, mtextVars>>

\* the values of the variables a specification does not use
NoScene ==
  /\ input = <<>> /\ loop = Acc0 /\ pc = "idle"
  /\ result = [s |-> "", bbox |-> Box(Acc0)] /\ svg = ""
NoLtype == ltypeRecord = <<>> /\ ltypeResult = [done |-> FALSE]
NoColor == colorArgs = <<>> /\ colorResult = [done |-> FALSE]
NoDim == dimArgs = <<>> /\ dimResult = [done |-> FALSE]
NoTol == tolArgs = <<>> /\ tolResult = [step |-> "idle"]
NoBlock ==
  /\ blockDoc = <<>> /\ callStack = <<>> /\ blockRun = [pc |-> "idle", calls |-> 0]
NoMtext == mtextRecord = <<>> /\ mtextResult = [done |-> FALSE]

\* createSvgContents(dxf) has called entitiesSvg(dxf, dxf.ENTITIES, options)
Init ==
  /\ input \in Lists(MaxEntities)
  /\ loop = Acc0
  /\ pc = "loop"
  /\ result = [s |-> "", bbox |-> Box(Acc0)]
  /\ svg = ""
  /\ NoLtype /\ NoColor /\ NoDim /\ NoTol /\ NoBlock /\ NoMtext

\* lines 757-759: continue
SkipUntyped ==
  /\ pc = "loop"
  /\ loop.i <= Len(input)
  /\ TypeAt(input, loop.i) = ""
  /\ loop' = Iterate(SceneDxf, input, loop)
  /\ UNCHANGED <<input, pc, result, svg, ltypeVars, colorVars, dimVars, tolVars, blockVars, mtextVars>>

\* lines 761-791: one record with a type tag, with its vertex group
DispatchEntity ==
  /\ pc = "loop"
  /\ loop.i <= Len(input)
  /\ TypeAt(input, loop.i) # ""
  /\ loop' = Iterate(SceneDxf, input, loop)
  /\ UNCHANGED <<input, pc, result, svg, ltypeVars, colorVars, dimVars, tolVars, blockVars, mtextVars>>

\* lines 795-800 and 807: the loop is over, createSvgContents returns
Return ==
  /\ pc = "loop"
  /\ loop.i > Len(input)
  /\ result' = [s |-> loop.s, bbox |-> Box(loop)]
  /\ pc' = "returned"
  /\ UNCHANGED <<input, loop, svg, ltypeVars, colorVars, dimVars, tolVars, blockVars, mtextVars>>

\* createSvgString (lines 810-824)
createSvgString ==
  /\ pc = "returned"
  /\ svg' = jsx("svg",
                <<PStr("xmlns", "http://www.w3.org/2000/svg"),
                  PStr("viewBox", NumStr(result.bbox.x) \o " " \o NumStr(result.bbox.y)
                                    \o " " \o NumStr(result.bbox.w) \o " "
                                    \o NumStr(result.bbox.h)),
                  PNum("width", result.bbox.w),
                  PNum("height", result.bbox.h)>>,
                result.s)
  /\ pc' = "done"
  /\ UNCHANGED <<input, loop, result, ltypeVars, colorVars, dimVars, tolVars, blockVars, mtextVars>>

Next == SkipUntyped \/ DispatchEntity \/ Return \/ createSvgString

Spec == Init /\ [][Next]_vars

SetMin(S) == CHOOSE m \in S : \A n \in S : m <= n
SetMax(S) == CHOOSE m \in S : \A n \in S : m >= n

(***************************************************************************)
(* The linetype table: createEntitySvgMap on one LTYPE record whose code-49 *)
(* values are drawn from Segments.                                         *)
(***************************************************************************)
\* the raw code-49 values: "0", "-0", "1" and "-1"
Segments == { [neg |-> n, abs |-> a] : n \in BOOLEAN, a \in {"0", "1"} }

\* the most code-49 values of a record
MaxSegments == 4

RECURSIVE SegmentLists(_)
SegmentLists(n) ==
  IF n = 0 THEN {<<>>}
  ELSE LET shorter == SegmentLists(n - 1)
       IN shorter \cup {Append(l, g) : l \in {m \in shorter : Len(m) = n - 1}, g \in Segments}

LtypeOf(raw) ==
  <<<<0, "LTYPE">>, <<2, "T">>>> \o [j \in 1..Len(raw) |-> <<49, raw[j]>>]

InitLtype ==
  /\ ltypeRecord \in { LtypeOf(raw) : raw \in SegmentLists(MaxSegments) }
  /\ ltypeResult = [done |-> FALSE]
  /\ NoScene /\ NoColor /\ NoDim /\ NoTol /\ NoBlock /\ NoMtext

\* lines 312-321 for the record
BuildLtypeMap ==
  /\ ~ltypeResult.done
  /\ ltypeResult' =
       [done |-> TRUE,
        strokeDasharray |-> NormalizeDash(getGroupCodeValues(ltypeRecord, 49)),
        ltypeMap |-> ltypeMap(<<ltypeRecord>>)]
  /\ UNCHANGED <<ltypeRecord, sceneVars, colorVars, dimVars, tolVars, blockVars, mtextVars>>

NextLtype == BuildLtypeMap

SpecLtype == InitLtype /\ [][NextLtype]_vars

\* C7: the normalized dash pattern of a linetype record is empty or of even
\* length, whatever the number of its code-49 values and whether or not the
\* first is zero.
C7_DashEven ==
  ltypeResult.done =>
    \/ Len(ltypeResult.strokeDasharray) = 0
    \/ Len(ltypeResult.strokeDasharray) % 2 = 0

\* what is stored for the linetype is the pattern, joined, when not empty
LtypeStored ==
  ltypeResult.done =>
    IF Len(ltypeResult.strokeDasharray) = 0 THEN DOMAIN ltypeResult.ltypeMap = {}
    ELSE ltypeResult.ltypeMap = ("T" :> [strokeDasharray |-> Join(ltypeResult.strokeDasharray)])

\* line 316 yields no pattern of even length but the empty one
DashOddOrEmpty ==
  ltypeResult.done =>
    \/ Len(ltypeResult.strokeDasharray) = 0
    \/ Len(ltypeResult.strokeDasharray) % 2 = 1

(***************************************************************************)
(* The colour cascade: color(entity) under a layer table.                  *)
(***************************************************************************)
LayerRecord(name, index) ==
  <<<<0, "LAYER">>, <<2, name>>>> \o (IF index = "" THEN <<>> ELSE <<<<62, index>>>>)

LayerTables ==
  { <<>>,
    <<LayerRecord("L1", "1")>>,
    <<LayerRecord("L1", "")>>,
    <<LayerRecord("L1", "5"), LayerRecord("L2", "3")>>,
    <<LayerRecord("L1", "5"), LayerRecord("L1", "2")>>,
    <<<<<<0, "VPORT">>, <<2, "L1">>, <<62, "4">>>>>> }

ColorEntities ==
  { <<<<0, "LINE">>>> \o (IF index = "" THEN <<>> ELSE <<<<62, index>>>>)
                      \o (IF layer = "" THEN <<>> ELSE <<<<8, layer>>>>)
      : index \in {"", "0", "256", "1", "7", "300"}, layer \in {"", "L1", "L2"} }

InitColor ==
  /\ colorArgs \in [entity : ColorEntities, LAYER : LayerTables]
  /\ colorResult = [done |-> FALSE]
  /\ NoScene /\ NoLtype /\ NoDim /\ NoTol /\ NoBlock /\ NoMtext

\* color(entity) (line 341) with the layerMap of lines 299-308
ResolveColor ==
  /\ ~colorResult.done
  /\ colorResult' = [done |-> TRUE, color |-> color(colorArgs, colorArgs.entity)]
  /\ UNCHANGED <<colorArgs, sceneVars, ltypeVars, dimVars, tolVars, blockVars, mtextVars>>

NextColor == ResolveColor

SpecColor == InitColor /\ [][NextColor]_vars

\* the LAYER records of the table that bear the entity's layer name
OwnLayers ==
  { j \in 1..Len(colorArgs.LAYER) :
      /\ Str(colorArgs.LAYER[j], 0) = "LAYER"
      /\ Has(colorArgs.entity, 8)
      /\ Str(colorArgs.LAYER[j], 2) = Str(colorArgs.entity, 8) }

\* the colour of the owning layer: that of the last such record
OwnLayerColor ==
  resolveColorIndex(ToNumber(Str(colorArgs.LAYER[SetMax(OwnLayers)], 62)))

\* C8, as claimed: the entity's own index, resolved, unless it is 0, 256 or
\* absent; then the owning layer's colour; currentColor only when neither
\* resolves.
C8_LayerForInherit ==
  colorResult.done =>
    colorResult.color =
      IF Str(colorArgs.entity, 62) \notin {"", "0", "256"}
      THEN resolveColorIndex(ToNumber(Str(colorArgs.entity, 62)))
      ELSE IF OwnLayers # {} THEN OwnLayerColor
      ELSE "currentColor"

\* C8, as amended: the entity's own index, resolved, unless it is 0, 256 or
\* absent; an index of 0 gives currentColor whatever the layer; an index of
\* 256 or none gives the owning layer's colour, and currentColor when the
\* layer map has no such layer.
C8_ColorCascade ==
  colorResult.done =>
    colorResult.color =
      IF Str(colorArgs.entity, 62) \notin {"", "0", "256"}
      THEN resolveColorIndex(ToNumber(Str(colorArgs.entity, 62)))
      ELSE IF Str(colorArgs.entity, 62) = "0" THEN "currentColor"
      ELSE IF OwnLayers # {} THEN OwnLayerColor
      ELSE "currentColor"

\* C8 witness: an entity of index 0 on a layer of the map is currentColor,
\* not the colour of its layer
C8_Witness ==
  /\ colorResult.done
  /\ Str(colorArgs.entity, 62) = "0"
  /\ OwnLayers # {}
  /\ OwnLayerColor = DXF_COLOR_HEX(1)
  /\ colorResult.color = "currentColor"

(***************************************************************************)
(* The dimension style cascade: collectDimensionStyles on a DIMENSION whose *)
(* override block, style table entry and header each define some of the    *)
(* variables.                                                              *)
(***************************************************************************)
DimStyleNameSet == { DimStyleNames[j] : j \in 1..Len(DimStyleNames) }

IndexOf(variableName) == CHOOSE j \in 1..Len(DimStyleNames) : DimStyleNames[j] = variableName

\* what a source may define: nothing, one variable, or every variable
Defined == {{}} \cup {{name} : name \in DimStyleNameSet} \cup {DimStyleNameSet}

\* the values the sources give to a variable: distinct from each other and
\* from every default
OverrideValue(variableName) == 30 + IndexOf(variableName)
StyleValue(variableName) == 20 + IndexOf(variableName)
HeaderValue(variableName) == 10 + IndexOf(variableName)

\* the pairs <<code, value>> of the chosen variables, in the order of DimStyles
RECURSIVE StylePairs(_, _, _)
StylePairs(names, chosen, base) ==
  IF names = <<>> THEN <<>>
  ELSE (IF Head(names) \in chosen
        THEN <<<<DimStyles(Head(names)).groupCode, base + IndexOf(Head(names))>>>>
        ELSE <<>>)
       \o StylePairs(Tail(names), chosen, base)

\* the same as 1070/1040 pairs of extended data
RECURSIVE OverrideData(_, _)
OverrideData(names, chosen) ==
  IF names = <<>> THEN <<>>
  ELSE (IF Head(names) \in chosen
        THEN <<<<1070, DimStyles(Head(names)).groupCode>>,
               <<1040, OverrideValue(Head(names))>>>>
        ELSE <<>>)
       \o OverrideData(Tail(names), chosen)

\* a DIMENSION of style S1: with no extended data, with a DSTYLE block, or
\* with extended data that ends at the DSTYLE marker
DimensionOf(shape, chosen) ==
  <<<<0, "DIMENSION">>, <<3, "S1">>>>
    \o (CASE shape = "none" -> <<>>
          [] shape = "block" ->
               <<<<1001, "ACAD">>, <<1000, "DSTYLE">>, <<1002, "{">>>>
                 \o OverrideData(DimStyleNames, chosen) \o <<<<1002, "}">>>>
          [] shape = "cut" -> <<<<1001, "ACAD">>, <<1000, "DSTYLE">>>>)

\* a table whose first style is another one that defines every variable
DimStyleTable(chosen) ==
  << <<<<0, "DIMSTYLE">>, <<2, "S0">>>> \o StylePairs(DimStyleNames, DimStyleNameSet, 40),
     <<<<0, "DIMSTYLE">>, <<2, "S1">>>> \o StylePairs(DimStyleNames, chosen, 20) >>

HeaderOf(chosen) ==
  [key \in {"$" \o name : name \in chosen} |->
     LET name == CHOOSE nm \in chosen : "$" \o nm = key
     IN <<<<DimStyles(name).headerGroupCode, HeaderValue(name)>>>>]

InitDim ==
  /\ dimArgs \in
       { [dimension |-> DimensionOf(shape, ov),
          DIMSTYLE |-> DimStyleTable(st),
          HEADER |-> HeaderOf(hd)]
           : shape \in {"none", "block", "cut"}, ov \in Defined, st \in Defined, hd \in Defined }
  /\ dimResult = [done |-> FALSE]
  /\ NoScene /\ NoLtype /\ NoColor /\ NoTol /\ NoBlock /\ NoMtext

\* line 520
CollectStyles ==
  /\ ~dimResult.done
  /\ dimResult' = [done |-> TRUE,
                   ret |-> collectDimensionStyles(dimArgs, dimArgs.dimension)]
  /\ UNCHANGED <<dimArgs, sceneVars, ltypeVars, colorVars, tolVars, blockVars, mtextVars>>

NextDim == CollectStyles

SpecDim == InitDim /\ [][NextDim]_vars

\* the DIMENSION carries a braced DSTYLE block
HasOverrideBlock ==
  \E j \in 1..(Len(dimArgs.dimension) - 1) :
     /\ dimArgs.dimension[j] = <<1000, "DSTYLE">>
     /\ dimArgs.dimension[j + 1] = <<1002, "{">>

\* its extended data end at the DSTYLE marker
CutOverrideBlock ==
  /\ Len(dimArgs.dimension) > 0
  /\ dimArgs.dimension[Len(dimArgs.dimension)] = <<1000, "DSTYLE">>

\* the sources that define the variable
InOverride(variableName) ==
  /\ HasOverrideBlock
  /\ \E j \in 1..Len(dimArgs.dimension) :
       dimArgs.dimension[j] = <<1070, DimStyles(variableName).groupCode>>
InStyle(variableName) ==
  \E j \in 1..Len(dimArgs.DIMSTYLE) :
     /\ <<2, "S1">> \in {dimArgs.DIMSTYLE[j][m] : m \in 1..Len(dimArgs.DIMSTYLE[j])}
     /\ \E m \in 1..Len(dimArgs.DIMSTYLE[j]) :
          dimArgs.DIMSTYLE[j][m][1] = DimStyles(variableName).groupCode
InHeader(variableName) == ("$" \o variableName) \in DOMAIN dimArgs.HEADER

CutThrows == (dimResult.done /\ CutOverrideBlock) => dimResult.ret.k = "throw"

(***************************************************************************)
(* Dimension text: dimensionValueToMText on a measurement, a DIMENSION and *)
(* its resolved styles.                                                    *)
(***************************************************************************)
Tolerances == {NaN, Fin(-1), Fin(0), Fin(1), Fin(2)}

Templates == { <<"<>">>, <<"L=", "<>", " mm">>, <<"<>", "/", "<>">>, <<"fixed">> }

TolDimensions ==
  { <<<<0, "DIMENSION">>>> \o saved \o template :
      saved \in {<<>>, <<<<42, 7>>>>, <<<<42, -1>>>>, <<<<42, 2000000>>>>},
      template \in {<<>>, <<<<1, <<>>>>>>} \cup {<<<<1, tm>>>> : tm \in Templates} }

TolStyles ==
  { [name \in DimStyleNameSet |->
       CASE name = "DIMTOL" -> tol
         [] name = "DIMTP" -> tp
         [] name = "DIMTM" -> tm
         [] name = "DIMLFAC" -> lfac
         [] name = "DIMDEC" -> dec
         [] OTHER -> DimStyles(name).defaultValue]
      : tol \in {Fin(0), Fin(1)}, tp \in Tolerances, tm \in Tolerances,
        lfac \in {Fin(1), Fin(2)}, dec \in {Fin(4), Fin(-1)} }

InitTol ==
  /\ tolArgs \in [measurement : {Fin(12)}, dimension : TolDimensions, styles : TolStyles]
  /\ tolResult = [step |-> "called"]
  /\ NoScene /\ NoLtype /\ NoColor /\ NoDim /\ NoBlock /\ NoMtext

\* lines 83-98; $number throws on a saved value beyond the sanity bound
FormatValue ==
  /\ tolResult.step = "called"
  /\ tolResult' =
       IF NumberThrows(tolArgs.dimension, 42)
       THEN [step |-> "thrown", error |-> NumberError(tolArgs.dimension, 42)]
       ELSE LET value == MTextValue(tolArgs.measurement, tolArgs.dimension, tolArgs.styles)
            IN [step |-> "formatted", value |-> value,
                valueWithTolerance |-> ValueWithTolerance(value, tolArgs.styles)]
  /\ UNCHANGED <<tolArgs, sceneVars, ltypeVars, colorVars, dimVars, blockVars, mtextVars>>

\* lines 100-101
ReturnMText ==
  /\ tolResult.step = "formatted"
  /\ tolResult' = [tolResult EXCEPT !.step = "returned"]
                    @@ [ret |-> ApplyTemplate(tolArgs.dimension, tolResult.valueWithTolerance)]
  /\ UNCHANGED <<tolArgs, sceneVars, ltypeVars, colorVars, dimVars, blockVars, mtextVars>>

NextTol == FormatValue \/ ReturnMText

SpecTol == InitTol /\ [][NextTol]_vars

\* a tolerance as an integer, an unset one (NaN) counting as zero
TolOf(name) == IF tolArgs.styles[name].k = "fin" THEN tolArgs.styles[name].v ELSE 0

\* a stacked value: "+" before a positive one, " 0" for zero, the number
\* itself when negative
Stacked(n) ==
  IF n > 0 THEN "+" \o ToString(n) ELSE IF n = 0 THEN " 0" ELSE ToString(n)

\* C10: with tolerance display on, the formatted value is the value alone
\* when both tolerances are zero or unset; the value, two spaces, the plus-
\* minus sign and the tolerance when they are equal and not zero; otherwise
\* the value, two spaces and the stack {\S upper ^ lower ;} of the plus
\* tolerance and the negated minus tolerance, a zero printed as " 0"
\* without a sign.
C10_ToleranceFormat ==
  (tolResult.step \in {"formatted", "returned"} /\ Truthy(tolArgs.styles["DIMTOL"])) =>
    tolResult.valueWithTolerance =
      IF TolOf("DIMTP") = 0 /\ TolOf("DIMTM") = 0
      THEN NumStr(tolResult.value)
      ELSE IF TolOf("DIMTP") = TolOf("DIMTM")
      THEN NumStr(tolResult.value) \o "  ±" \o ToString(TolOf("DIMTP"))
      ELSE NumStr(tolResult.value) \o "  {\\S" \o Stacked(TolOf("DIMTP")) \o "^"
             \o Stacked(-TolOf("DIMTM")) \o ";}"

\* C10 witness: a plus tolerance of 1 over a minus tolerance of zero is
\* stacked as +1 over " 0"
C10_Witness ==
  /\ tolResult.step = "formatted"
  /\ Truthy(tolArgs.styles["DIMTOL"])
  /\ tolArgs.styles["DIMTP"] = Fin(1)
  /\ tolArgs.styles["DIMTM"] = Fin(0)
  /\ tolResult.valueWithTolerance = "24  {\\S+1^ 0;}"

\* without tolerance display the formatted value is the value alone
NoToleranceShown ==
  (tolResult.step \in {"formatted", "returned"} /\ ~Truthy(tolArgs.styles["DIMTOL"])) =>
    tolResult.valueWithTolerance = NumStr(tolResult.value)

(***************************************************************************)
(* What the claims about the Scene Assembler speak of.                     *)
(***************************************************************************)
\* the own keys of the interpreter table (lines 360-720)
InterpreterNames ==
  {"POINT", "LINE", "POLYLINE", "LWPOLYLINE", "CIRCLE", "ARC", "ELLIPSE", "LEADER",
   "HATCH", "SOLID", "TEXT", "MTEXT", "DIMENSION", "ACAD_TABLE", "INSERT"}

\* the indices below upto at which an iteration over a typed record started
RECURSIVE StartsFrom(_, _, _)
StartsFrom(entities, j, upto) ==
  IF j >= upto \/ j > Len(entities) THEN <<>>
  ELSE IF TypeAt(entities, j) = "" THEN StartsFrom(entities, j + 1, upto)
  ELSE <<j>> \o StartsFrom(entities, j + Consumed(entities, j), upto)

\* the records dispatched so far, as indices into input
Dispatched == StartsFrom(input, 1, loop.i)

\* what the call made for the record at j did
CallAt(j) ==
  entitySvg(SceneDxf, TypeAt(input, j), input[j],
            SubSeq(input, j + 1, j + VertexRun(input, j)))

\* the record at j has no interpreter
Unrecognized(j) == TypeAt(input, j) \notin InterpreterNames

\* interpreting the record at j raised a fault, and the fault
FaultAt(j) ==
  IF ~HasEntitySvg(TypeAt(input, j)) THEN ""
  ELSE IF CallAt(j).k = "throw" THEN CallAt(j).err
  ELSE IF CallAt(j).k = "svg" /\ CallAt(j).xsErr # "" THEN CallAt(j).xsErr
  ELSE IF CallAt(j).k = "svg" /\ CallAt(j).ysErr # "" THEN CallAt(j).ysErr
  ELSE ""

\* the interpreter of the record at j succeeded: it returned a primitive
Succeeded(j) ==
  /\ TypeAt(input, j) \in InterpreterNames
  /\ HasEntitySvg(TypeAt(input, j))
  /\ CallAt(j).k = "svg"

\* the markup of the primitives of the records of js that are in keep
RECURSIVE MarkupOf(_, _)
MarkupOf(js, keep) ==
  IF js = <<>> THEN ""
  ELSE (IF Head(js) \in keep THEN CallAt(Head(js)).markup ELSE "")
         \o MarkupOf(Tail(js), keep)

\* the finite coordinates returned for the records of js that are in keep
CoordsOf(js, keep, axis) ==
  UNION { { a.v : a \in { c[m] : m \in 1..Len(c) } }
            : c \in { FilterFinite(IF axis = "x" THEN CallAt(js[n]).xs ELSE CallAt(js[n]).ys)
                        : n \in { m \in 1..Len(js) : js[m] \in keep } } }


\* lo and hi are the running extremes of exactly the coordinates S
ExtentIs(lo, hi, S) ==
  IF S = {} THEN lo = Infinity /\ hi = NegInfinity
  ELSE lo = Fin(SetMin(S)) /\ hi = Fin(SetMax(S))

\* the box is the box of exactly the coordinates S
BoxSideIs(lo, size, S) ==
  IF S = {} THEN lo = Infinity /\ size = NegInfinity
  ELSE lo = Fin(SetMin(S)) /\ Add(lo, size) = Fin(SetMax(S))

\* the dispatched records whose call neither threw nor faulted afterwards
Unfaulted ==
  { j \in 1..Len(input) : HasEntitySvg(TypeAt(input, j)) /\ FaultAt(j) = "" }

\* the dispatched records whose interpreter succeeded
Rendered == { j \in 1..Len(input) : Succeeded(j) }

\* C1: a fault raised while one entity is interpreted is caught and reported
\* to warn with the offending record, the entity that faulted adds nothing to
\* the markup or the box, and every other entity dispatched adds what its
\* interpreter returns for it.
C1_FaultIsolation ==
  /\ \A n \in 1..Len(Dispatched) :
       FaultAt(Dispatched[n]) # "" =>
         \E m \in 1..Len(loop.warns) :
           loop.warns[m] = Warning("Error occurred: " \o FaultAt(Dispatched[n]),
                                   input[Dispatched[n]])
  /\ loop.s = MarkupOf(Dispatched, Unfaulted)
  /\ ExtentIs(loop.minX, loop.maxX, CoordsOf(Dispatched, Unfaulted, "x"))
  /\ ExtentIs(loop.minY, loop.maxY, CoordsOf(Dispatched, Unfaulted, "y"))

\* the record about to be dispatched makes $number throw (lines 25-27)
FatalInput ==
  /\ pc = "loop"
  /\ loop.i <= Len(input)
  /\ TypeAt(input, loop.i) \in Interpreters
  /\ CallAt(loop.i).k = "throw"

\* C2, as claimed: once $number has thrown for a dispatched record the
\* conversion is over: no later record is dispatched and no scene is returned.
C2_FatalAborts ==
  \A n \in 1..Len(Dispatched) :
    (TypeAt(input, Dispatched[n]) \in Interpreters /\ CallAt(Dispatched[n]).k = "throw")
      => /\ pc = "loop"
         /\ loop.i = Dispatched[n] + Consumed(input, Dispatched[n])

\* C2, as amended: the error $number throws for a record is caught by the
\* loop: it is reported to warn with the record, the record adds nothing to
\* the markup or the box, the loop goes on with the record after it, and
\* once every record has been dispatched the scene is returned.
C2_FatalCaught ==
  [][/\ FatalInput =>
          /\ loop'.warns = loop.warns
               \o <<Warning("Error occurred: " \o CallAt(loop.i).err, input[loop.i])>>
          /\ loop'.s = loop.s
          /\ Box(loop') = Box(loop)
          /\ loop'.i = loop.i + Consumed(input, loop.i)
          /\ pc' = "loop"
     /\ (pc = "loop" /\ loop.i > Len(input)) =>
          /\ pc' = "returned"
          /\ result' = [s |-> loop.s, bbox |-> Box(loop)]]_vars

\* C2 witness: a scene has been returned that holds the primitive of a record
\* dispatched after one for which $number threw
C2_Witness ==
  /\ pc = "returned"
  /\ Len(input) = 2
  /\ TypeAt(input, 1) = "LINE" /\ CallAt(1).k = "throw"
  /\ TypeAt(input, 2) = "CIRCLE"
  /\ result.s = CallAt(2).markup
  /\ result.bbox = [x |-> Fin(3), y |-> Fin(-7), w |-> Fin(4), h |-> Fin(4)]
  /\ Len(loop.warns) = 1

\* C3: dispatching a record whose type tag has no interpreter passes exactly
\* one diagnostic to warn, which names the type, adds nothing to the markup
\* and leaves the box as it was.
C3_UnrecognizedSkipped ==
  [][(pc = "loop" /\ loop.i <= Len(input) /\ TypeAt(input, loop.i) # ""
        /\ Unrecognized(loop.i))
       => /\ loop'.warns = loop.warns
               \o <<Warning("Unknown entity type: " \o TypeAt(input, loop.i), input[loop.i])>>
          /\ loop'.s = loop.s
          /\ Box(loop') = Box(loop)]_vars

\* C4: the box returned is the box of the finite coordinates returned by the
\* interpreters that succeeded, and of nothing else.
C4_BoxIsExtent ==
  pc = "returned" =>
    /\ BoxSideIs(result.bbox.x, result.bbox.w, CoordsOf(Dispatched, Rendered, "x"))
    /\ BoxSideIs(result.bbox.y, result.bbox.h, CoordsOf(Dispatched, Rendered, "y"))

\* a box with finite sides and no negative extent
ProperBox(b) ==
  /\ isFinite(b.x) /\ isFinite(b.y) /\ isFinite(b.w) /\ isFinite(b.h)
  /\ b.w.v >= 0 /\ b.h.v >= 0

\* C5: a scene without a single rendered entity is returned with a box whose
\* sides are finite and whose extents are not negative.
C5_EmptySceneBox ==
  (pc # "loop" /\ \A n \in 1..Len(Dispatched) : ~Succeeded(Dispatched[n]))
    => ProperBox(result.bbox)

\* an INSERT that does not throw is about to be dispatched
InsertInput ==
  /\ pc = "loop"
  /\ loop.i <= Len(input)
  /\ TypeAt(input, loop.i) = "INSERT"
  /\ CallAt(loop.i).k = "svg"

\* the box computed for the block an INSERT record names
NestedBox(entity) == entitiesSvg(SceneDxf, BlockEntities(SceneDxf, Key(entity, 2))).bbox

\* the stored value of a code, or what the format defaults it to
Stored(entity, code, default) ==
  IF Has(entity, code) THEN getGroupCodeValue(entity, code) ELSE default

\* the iteration merges exactly these extents into the running box
Merges(xs, ys) ==
  /\ loop'.minX = MathMin(loop.minX, FilterFinite(xs))
  /\ loop'.maxX = MathMax(loop.maxX, FilterFinite(xs))
  /\ loop'.minY = MathMin(loop.minY, FilterFinite(ys))
  /\ loop'.maxY = MathMax(loop.maxY, FilterFinite(ys))

\* translate and scale only: x + lo * scale and x + (lo + size) * scale
Remapped(x, scale, lo, size) ==
  <<Add(Fin(x), Mul(lo, Fin(scale))), Add(Fin(x), Mul(Add(lo, size), Fin(scale)))>>

\* C6, as claimed: an INSERT at (x, y) with the stored scale factors (sx, sy)
\* merges X in {x + bx*sx, x + (bx+bw)*sx} and Y in {-y + by*sy,
\* -y + (by+bh)*sy}, whatever its rotation.
C6_StoredScaleExtents ==
  [][InsertInput =>
       LET e == input[loop.i]
           b == NestedBox(e)
       IN Merges(Remapped(Stored(e, 10, 0), Stored(e, 41, 1), b.x, b.w),
                 Remapped(-Stored(e, 20, 0), Stored(e, 42, 1), b.y, b.h))]_vars

\* a stored scale factor of 0 counts as 1 (lines 724-725)
Effective(scale) == IF scale = 0 THEN 1 ELSE scale

\* the INSERT of the scenario: the block B, one line (0,0)-(1,0), at (100,0)
\* with scale 2
ScenarioInsert ==
  <<<<0, "INSERT">>, <<2, "B">>, <<10, 100>>, <<20, 0>>, <<41, 2>>, <<42, 2>>>>

\* C6, as amended: an INSERT at (x, y) whose scale factors are (sx, sy), a
\* stored factor of 0 counting as 1, merges X in {x + bx*sx, x + (bx+bw)*sx}
\* and Y in {-y + by*sy, -y + (by+bh)*sy}, whatever its rotation; the INSERT
\* of the scenario alone gives the box {x: 100, y: 0, w: 2, h: 0}.
C6_InsertExtents ==
  /\ [][InsertInput =>
          LET e == input[loop.i]
              b == NestedBox(e)
          IN Merges(Remapped(Stored(e, 10, 0), Effective(Stored(e, 41, 1)), b.x, b.w),
                    Remapped(-Stored(e, 20, 0), Effective(Stored(e, 42, 1)), b.y, b.h))]_vars
  /\ []((pc = "returned" /\ input = <<ScenarioInsert>>)
          => result.bbox = [x |-> Fin(100), y |-> Fin(0), w |-> Fin(2), h |-> Fin(0)])

\* C6 witness: a rotated INSERT of B at (5,5) with scale (3,-1), dispatched
\* after the circle, has widened the box by translate and scale alone
C6_Witness ==
  /\ pc = "returned"
  /\ Len(input) = 2
  /\ TypeAt(input, 1) = "CIRCLE"
  /\ TypeAt(input, 2) = "INSERT" /\ Has(input[2], 50) /\ Stored(input[2], 41, 1) = 3
  /\ result.bbox = [x |-> Fin(3), y |-> Fin(-7), w |-> Fin(5), h |-> Fin(4)]

\* the run agrees with entitiesSvg taken as a whole
RunAgrees ==
  pc # "loop" => result = [s |-> entitiesSvg(SceneDxf, input).s,
                           bbox |-> entitiesSvg(SceneDxf, input).bbox]

(***************************************************************************)
(* Block expansion: the chain of calls INSERT -> entitiesSvg -> INSERT     *)
(* (lines 732 and 775) on documents whose blocks may name themselves or    *)
(* each other.  Only the control flow is kept: the entity list and the     *)
(* loop index of every invocation in progress.  Nothing in lines 720-801   *)
(* ends a chain of blocks that leads back to itself but the call stack of  *)
(* the engine, whose exhaustion throws a RangeError.                       *)
(***************************************************************************)
\* the block names of the documents
BlockNames == {"A", "B"}

\* what the lists of the documents are made of: a LINE, a record without a
\* type tag, an INSERT of each block and an INSERT of a block the document
\* does not have
InsertRecord(name) == <<<<0, "INSERT">>, <<2, name>>>>

BlockRecords ==
  { <<<<0, "LINE">>, <<10, 0>>, <<20, 0>>, <<11, 1>>, <<21, 0>>>>,
    <<<<5, "2A">>>> }
    \cup { InsertRecord(name) : name \in BlockNames \cup {"C"} }

\* the longest entity list of a document, of a block or at top level
MaxBlockEntities == 2

RECURSIVE BlockLists(_)
BlockLists(n) ==
  IF n = 0 THEN {<<>>}
  ELSE { Append(l, r) : l \in {m \in BlockLists(n - 1) : Len(m) = n - 1}, r \in BlockRecords }
         \cup BlockLists(n - 1)

\* the number of entitiesSvg invocations the call stack of the engine holds
StackLimit == 5

InitBlocks ==
  /\ blockDoc \in [ENTITIES : BlockLists(MaxBlockEntities),
                   BLOCKS : [BlockNames -> BlockLists(MaxBlockEntities)]]
  /\ callStack = <<[entities |-> blockDoc.ENTITIES, i |-> 1]>>
  /\ blockRun = [pc |-> "run", calls |-> 0]
  /\ NoScene /\ NoLtype /\ NoColor /\ NoDim /\ NoTol /\ NoMtext

\* the invocation in progress and the record its loop is at
TopFrame == callStack[Len(callStack)]
TopRecord == TopFrame.entities[TopFrame.i]
TopLooping ==
  /\ blockRun.pc = "run"
  /\ TopFrame.i <= Len(TopFrame.entities)

\* the call stack with the loop of its k-th invocation moved past the record
\* it was dispatching, and the deeper invocations gone
Resumed(k) ==
  [j \in 1..k |->
     IF j < k THEN callStack[j]
     ELSE [callStack[k] EXCEPT !.i = @ + Consumed(callStack[k].entities, @)]]

\* lines 757-759
BlockSkipUntyped ==
  /\ TopLooping
  /\ TypeAt(TopFrame.entities, TopFrame.i) = ""
  /\ callStack' = [callStack EXCEPT ![Len(callStack)].i = @ + 1]
  /\ UNCHANGED <<blockDoc, blockRun, sceneVars, ltypeVars, colorVars, dimVars, tolVars, mtextVars>>

\* lines 761-791 for a record that is no INSERT: its interpreter, or the
\* diagnostic, and on to the next record
BlockDispatch ==
  /\ TopLooping
  /\ TypeAt(TopFrame.entities, TopFrame.i) \notin {"", "INSERT"}
  /\ callStack' = Resumed(Len(callStack))
  /\ UNCHANGED <<blockDoc, blockRun, sceneVars, ltypeVars, colorVars, dimVars, tolVars, mtextVars>>

\* lines 728-732: INSERT calls entitiesSvg on the records of the named block
\* (on undefined when there is no such block)
BlockInsert ==
  /\ TopLooping
  /\ TypeAt(TopFrame.entities, TopFrame.i) = "INSERT"
  /\ Len(callStack) < StackLimit
  /\ callStack' = Append(callStack,
                         [entities |-> BlockEntities(blockDoc, Key(TopRecord, 2)),
                          i |-> 1])
  /\ blockRun' = [blockRun EXCEPT !.calls = @ + 1]
  /\ UNCHANGED <<blockDoc, sceneVars, ltypeVars, colorVars, dimVars, tolVars, mtextVars>>

\* the call of line 732 does not fit the stack: a RangeError is thrown.  The
\* catch of line 789 of the innermost loop runs; its call of warn may throw
\* again for want of stack, and then the catch of the loop around it runs,
\* and so on, how far depending on the engine: the loop of some invocation k
\* goes on with its next record
BlockStackOverflow ==
  /\ TopLooping
  /\ TypeAt(TopFrame.entities, TopFrame.i) = "INSERT"
  /\ Len(callStack) = StackLimit
  /\ \E k \in 1..Len(callStack) : callStack' = Resumed(k)
  /\ UNCHANGED <<blockDoc, blockRun, sceneVars, ltypeVars, colorVars, dimVars, tolVars, mtextVars>>

\* lines 795-800 in a nested invocation: INSERT gets the contents and the
\* box, and the loop around it goes on (lines 733-737, 776-785)
BlockReturn ==
  /\ blockRun.pc = "run"
  /\ Len(callStack) > 1
  /\ TopFrame.i > Len(TopFrame.entities)
  /\ callStack' = Resumed(Len(callStack) - 1)
  /\ UNCHANGED <<blockDoc, blockRun, sceneVars, ltypeVars, colorVars, dimVars, tolVars, mtextVars>>

\* lines 795-800 in the outermost invocation
BlockDone ==
  /\ blockRun.pc = "run"
  /\ Len(callStack) = 1
  /\ TopFrame.i > Len(TopFrame.entities)
  /\ blockRun' = [blockRun EXCEPT !.pc = "returned"]
  /\ UNCHANGED <<blockDoc, callStack, sceneVars, ltypeVars, colorVars, dimVars, tolVars, mtextVars>>

NextBlocks ==
  \/ BlockSkipUntyped \/ BlockDispatch \/ BlockInsert
  \/ BlockStackOverflow \/ BlockReturn \/ BlockDone

SpecBlocks == InitBlocks /\ [][NextBlocks]_vars

\* the lists of the document: its entities and those of its blocks
DocLists == {blockDoc.ENTITIES} \cup {blockDoc.BLOCKS[name] : name \in DOMAIN blockDoc.BLOCKS}

\* the INSERT records of a list
InsertsIn(l) == Cardinality({j \in 1..Len(l) : Str(l[j], 0) = "INSERT"})

\* the most INSERT records in one list of the document
MaxInserts == SetMax({InsertsIn(l) : l \in DocLists})

RECURSIVE SumOfPowers(_, _)
SumOfPowers(k, n) == IF n = 0 THEN 0 ELSE k * (1 + SumOfPowers(k, n - 1))

\* the invocations an expansion needs in which no block is entered while it
\* is being expanded: a chain of INSERTs goes through each block at most once
\* and may end at a block the document does not have, so at depth d there
\* are at most MaxInserts^d invocations, for d up to the number of blocks
\* plus one
ExpansionBound == SumOfPowers(MaxInserts, Cardinality(DOMAIN blockDoc.BLOCKS) + 1)

\* C11: the number of entitiesSvg invocations made through INSERT is bounded
\* by the size of the document, whatever its blocks, those that name
\* themselves or lead back to themselves included: it never exceeds what an
\* expansion entering no block twice on one chain needs.
C11_ExpansionBounded == blockRun.calls <= ExpansionBound

\* the blocks reached from a block by INSERT records, in at most n steps
RECURSIVE ReachedFrom(_, _)
ReachedFrom(names, n) ==
  IF n = 0 THEN names
  ELSE ReachedFrom(
         names \cup { nm \in DOMAIN blockDoc.BLOCKS :
                        \E from \in names :
                          \E j \in 1..Len(blockDoc.BLOCKS[from]) :
                            blockDoc.BLOCKS[from][j] = InsertRecord(nm) },
         n - 1)

InsertedBy(name) ==
  { nm \in DOMAIN blockDoc.BLOCKS :
      \E j \in 1..Len(blockDoc.BLOCKS[name]) : blockDoc.BLOCKS[name][j] = InsertRecord(nm) }

\* no block leads back to itself
Acyclic ==
  \A name \in DOMAIN blockDoc.BLOCKS :
     name \notin ReachedFrom(InsertedBy(name), Cardinality(DOMAIN blockDoc.BLOCKS))

\* on the documents without such a block the bound holds and the stack is
\* not exhausted
AcyclicBounded ==
  Acyclic =>
    /\ blockRun.calls <= ExpansionBound
    /\ Len(callStack) <= Cardinality(DOMAIN blockDoc.BLOCKS) + 2

\* a block that names itself is expanded until the stack is full
SelfInsertFillsStack ==
  /\ blockDoc.ENTITIES = <<InsertRecord("A")>>
  /\ blockDoc.BLOCKS["A"] = <<InsertRecord("A")>>
  /\ Len(callStack) = StackLimit
  /\ blockRun.calls = StackLimit - 1

(***************************************************************************)
(* Vertex grouping: the loop of entitiesSvg on lists of polylines, lines,  *)
(* vertices, end markers and records without a type tag.  The steps are    *)
(* those of Next.                                                          *)
(***************************************************************************)
VertexRecords ==
  { <<<<0, "POLYLINE">>>>,
    <<<<0, "LINE">>, <<10, 0>>, <<20, 0>>, <<11, 10>>, <<21, 0>>>>,
    <<<<0, "VERTEX">>, <<10, 0>>, <<20, 0>>>>,
    <<<<0, "VERTEX">>, <<10, 2>>, <<20, 3>>>>,
    <<<<0, "SEQEND">>>>,
    <<<<5, "1F">>>> }

\* the longest entity list of these runs
MaxVertexEntities == 4

RECURSIVE VertexLists(_)
VertexLists(n) ==
  IF n = 0 THEN {<<>>}
  ELSE { Append(l, r) : l \in {m \in VertexLists(n - 1) : Len(m) = n - 1}, r \in VertexRecords }
         \cup VertexLists(n - 1)

InitVertex ==
  /\ input \in VertexLists(MaxVertexEntities)
  /\ loop = Acc0
  /\ pc = "loop"
  /\ result = [s |-> "", bbox |-> Box(Acc0)]
  /\ svg = ""
  /\ NoLtype /\ NoColor /\ NoDim /\ NoTol /\ NoBlock /\ NoMtext

SpecVertex == InitVertex /\ [][Next]_vars

\* the type tag of the m-th record after the one the loop is at
TagAfter(m) ==
  IF loop.i + m \in 1..Len(input) /\ Has(input[loop.i + m], 0)
  THEN getGroupCodeValue(input[loop.i + m], 0)
  ELSE ""

\* the length of the unbroken run of VERTEX records after that record
RunAfter ==
  CHOOSE k \in 0..Len(input) :
    /\ \A m \in 1..k : TagAfter(m) = "VERTEX"
    /\ TagAfter(k + 1) # "VERTEX"

\* the run, and the end marker that directly follows a run
GroupAfter == SubSeq(input, loop.i + 1, loop.i + RunAfter)
MarkerAfter == IF RunAfter > 0 /\ TagAfter(RunAfter + 1) = "SEQEND" THEN 1 ELSE 0

\* C12: the loop takes the records in list order.  At a record with a type
\* tag it hands the unbroken run of VERTEX records that follows, in order, to
\* the interpreter of that record (or reports the type as unknown) and moves
\* past the record, the run and an end marker directly after the run, so
\* that these are not dispatched themselves; at a record without a type tag
\* it moves on by one record.  Every record it comes to stand at is so
\* dispatched once, and the loop ends only past the last record.
C12_VertexGrouping ==
  /\ [][ (pc = "loop" /\ loop.i <= Len(input)) =>
           IF TagAfter(0) = ""
           THEN loop' = [loop EXCEPT !.i = loop.i + 1]
           ELSE /\ loop'.i = loop.i + 1 + RunAfter + MarkerAfter
                /\ IF TagAfter(0) \in InterpreterNames
                   THEN loop' = Merge(loop, loop.i + 1 + RunAfter + MarkerAfter,
                                      entitySvg(SceneDxf, TagAfter(0), input[loop.i], GroupAfter),
                                      input[loop.i])
                   ELSE /\ loop'.s = loop.s
                        /\ loop'.warns =
                             loop.warns
                               \o <<Warning("Unknown entity type: " \o TagAfter(0),
                                            input[loop.i])>> ]_vars
  /\ [](pc # "loop" => loop.i = Len(input) + 1)

\* C12 witness: a polyline, two vertices and the end marker are one dispatch:
\* the polyline is drawn through both vertices in order and neither the
\* vertices nor the marker are reported as unknown entities
C12_Witness ==
  /\ Len(input) = 4
  /\ input[1] = <<<<0, "POLYLINE">>>>
  /\ input[2] = <<<<0, "VERTEX">>, <<10, 0>>, <<20, 0>>>>
  /\ input[3] = <<<<0, "VERTEX">>, <<10, 2>>, <<20, 3>>>>
  /\ input[4] = <<<<0, "SEQEND">>>>
  /\ loop.i = 5
  /\ loop.warns = <<>>
  /\ loop.s = POLYLINE(SceneDxf, input[1], <<input[2], input[3]>>).markup
  /\ loop.s # POLYLINE(SceneDxf, input[1], <<input[3], input[2]>>).markup
  /\ pc = "done"

\* a vertex or an end marker that no run has taken is an entity of unknown
\* type
LooseVertexReported ==
  /\ Len(input) = 3
  /\ TypeAt(input, 1) = "" /\ TypeAt(input, 2) = "VERTEX" /\ TypeAt(input, 3) = "SEQEND"
  /\ Len(loop.warns) = 2
  /\ pc = "done"

(***************************************************************************)
(* Multi-line text rotation: MTEXT_angle on records whose pairs of code    *)
(* 50, 11, 21 and 12, each code at most once, come in any order.           *)
(***************************************************************************)
MtextPairs ==
  { <<50, 30>>, <<50, 0>>, <<11, 1>>, <<11, 0>>, <<11, -1>>, <<21, 1>>, <<21, 0>>, <<12, 1>> }

\* the most such pairs in a record
MaxMtextPairs == 3

RECURSIVE MtextPairLists(_)
MtextPairLists(n) ==
  IF n = 0 THEN {<<>>}
  ELSE { Append(l, r) : l \in {m \in MtextPairLists(n - 1) : Len(m) = n - 1}, r \in MtextPairs }
         \cup MtextPairLists(n - 1)

\* a record stores each code once
EachCodeOnce(l) == \A j, m \in 1..Len(l) : l[j][1] = l[m][1] => j = m

InitMtext ==
  /\ mtextRecord \in { <<<<0, "MTEXT">>>> \o l :
                          l \in {m \in MtextPairLists(MaxMtextPairs) : EachCodeOnce(m)} }
  /\ mtextResult = [done |-> FALSE]
  /\ NoScene /\ NoLtype /\ NoColor /\ NoDim /\ NoTol /\ NoBlock

\* line 502
ResolveAngle ==
  /\ ~mtextResult.done
  /\ mtextResult' = [done |-> TRUE, ret |-> MTEXT_angle(mtextRecord, Len(mtextRecord))]
  /\ UNCHANGED <<mtextRecord, sceneVars, ltypeVars, colorVars, dimVars, tolVars, blockVars>>

NextMtext == ResolveAngle

SpecMtext == InitMtext /\ [][NextMtext]_vars

\* the first value the record stores for a code, 0 when it stores none
StoredOrZero(code) ==
  IF \E j \in 1..Len(mtextRecord) : mtextRecord[j][1] = code
  THEN mtextRecord[SetMin({j \in 1..Len(mtextRecord) : mtextRecord[j][1] = code})][2]
  ELSE 0

\* the angle in degrees of the vector (x, y), each component -1, 0 or 1
VectorAngle(x, y) ==
  CASE x = 0 /\ y = 0 -> 0
    [] x = 1 /\ y = 0 -> 0
    [] x = 1 /\ y = 1 -> 45
    [] x = 0 /\ y = 1 -> 90
    [] x = -1 /\ y = 1 -> 135
    [] x = -1 /\ y = 0 -> 180
    [] x = -1 /\ y = -1 -> -135
    [] x = 0 /\ y = -1 -> -90
    [] x = 1 /\ y = -1 -> -45

\* the positions of the pairs that bear on the rotation
AnglePairs == { j \in 1..Len(mtextRecord) : mtextRecord[j][1] \in {50, 11, 21} }

\* C13: in whatever order the codes come, the stored angle (code 50) when
\* there is one; otherwise the angle of the X-direction vector
\* (codes 11 and 21) when there is one; otherwise 0 (no record of these runs
\* stores a Y-direction vector).
C13_AnglePriority ==
  mtextResult.done =>
    mtextResult.ret =
      [k |-> "angle",
       v |-> Fin(IF \E j \in AnglePairs : mtextRecord[j][1] = 50 THEN StoredOrZero(50)
                 ELSE IF AnglePairs # {} THEN VectorAngle(StoredOrZero(11), StoredOrZero(21))
                 ELSE 0)]

\* what lines 187-202 do: the last pair of code 50, 11 or 21 in the record
\* decides.  A code 50 gives its angle; a code 21 of value y the angle of
\* the vector (first code-11 value, y); a code 11 of value x the angle of
\* the vector (x, first code-12 value); an absent component counts as 0.
\* Without any such pair the rotation is 0.
LastAngleCodeWins ==
  mtextResult.done =>
    mtextResult.ret =
      [k |-> "angle",
       v |-> Fin(IF AnglePairs = {} THEN 0
                 ELSE LET last == mtextRecord[SetMax(AnglePairs)]
                      IN CASE last[1] = 50 -> last[2]
                           [] last[1] = 21 -> VectorAngle(StoredOrZero(11), last[2])
                           [] last[1] = 11 -> VectorAngle(last[2], StoredOrZero(12)))]

\* a stored angle of 30 followed by the direction (0, 1) gives a rotation
\* of 90
StoredAngleOverridden ==
  /\ mtextResult.done
  /\ mtextRecord = <<<<0, "MTEXT">>, <<50, 30>>, <<11, 0>>, <<21, 1>>>>
  /\ mtextResult.ret = [k |-> "angle", v |-> Fin(90)]

\* the direction (0, 1) stored with its Y component first gives a rotation
\* of 0: the pair of code 11 decides and takes its Y component from code 12
DirectionMisread ==
  /\ mtextResult.done
  /\ mtextRecord = <<<<0, "MTEXT">>, <<21, 1>>, <<11, 0>>>>
  /\ mtextResult.ret = [k |-> "angle", v |-> Fin(0)]

(***************************************************************************)
(* The text template of a dimension, under SpecTol.                        *)
(***************************************************************************)
\* the pieces of the stored template, none when the record has no code 1
TemplatePieces ==
  IF \E j \in 1..Len(tolArgs.dimension) : tolArgs.dimension[j][1] = 1
  THEN tolArgs.dimension[CHOOSE j \in 1..Len(tolArgs.dimension) :
                           tolArgs.dimension[j][1] = 1][2]
  ELSE <<>>

\* where the template has its placeholders
Placeholders == { j \in 1..Len(TemplatePieces) : TemplatePieces[j] = "<>" }

\* the template with its first placeholder replaced
Substituted(by) ==
  Concat(SubSeq(TemplatePieces, 1, SetMin(Placeholders) - 1))
    \o by
    \o Concat(SubSeq(TemplatePieces, SetMin(Placeholders) + 1, Len(TemplatePieces)))

\* C14, as claimed: with a placeholder in the template the value replaces
\* its first occurrence and the rest is kept; in every other case (no
\* template, an empty one, one without placeholder) the text returned is the
\* value.
C14_ValueUnlessPlaceholder ==
  tolResult.step = "returned" =>
    tolResult.ret =
      IF Placeholders # {} THEN Substituted(tolResult.valueWithTolerance)
      ELSE tolResult.valueWithTolerance

\* C14, as amended: with a placeholder in the template the value replaces
\* its first occurrence and the rest is kept; without a template, or with an
\* empty one, the text returned is the value; a template that is not empty
\* and has no placeholder is returned as it is, without the value.
C14_Template ==
  tolResult.step = "returned" =>
    tolResult.ret =
      IF Placeholders # {} THEN Substituted(tolResult.valueWithTolerance)
      ELSE IF TemplatePieces = <<>> THEN tolResult.valueWithTolerance
      ELSE Concat(TemplatePieces)

\* C14 witness: of the two placeholders of "<>/<>" only the first is
\* replaced
C14_Witness ==
  /\ tolResult.step = "returned"
  /\ TemplatePieces = <<"<>", "/", "<>">>
  /\ tolResult.valueWithTolerance = "24  ±1"
  /\ tolResult.ret = "24  ±1/<>"

\* the template "fixed" is returned unchanged
FixedTemplateKept ==
  /\ tolResult.step = "returned"
  /\ TemplatePieces = <<"fixed">>
  /\ tolResult.ret = "fixed"

====
